---- MODULE Spec2Model ----
(***************************************************************************)
(* Model of the MIDI playback transport: PlaybackController                *)
(* (src/midi/playback_controller.py), the sink helper send_all_notes_off   *)
(* (src/midi/midi_event_utils.py) and the NoteScheduler the controller     *)
(* drives.  Time is fixed-point: positions and clock readings are whole     *)
(* units (one clock tick at 120 BPM), the anchor playback_start_real_time  *)
(* is kept in half units, so that position / tempo_scale_factor is exact   *)
(* for the tempos of the model, as it is for floats and a factor of 2.     *)
(***************************************************************************)
EXTENDS Integers, Sequences, FiniteSets, TLC

\* ------------------------------------------------------------------ bounds
MaxTime == 3          \* the wall clock runs over 0..MaxTime
MaxPollGap == 2       \* the dispatch loop wakes at least every MaxPollGap ticks
MaxSeek == 2          \* seek targets are -1..MaxSeek
MaxThreadTime == 1    \* clock units while the threads' steps interleave

\* ------------------------------------------------------- program constants
ReferenceBpm == 120   \* tempo_scale_factor = tempo_bpm / 120.0

Tempos == {120, 240}
BadTempos == {0, -ReferenceBpm}
SeekTargets == (-1)..MaxSeek
Programs == {0, 80}

Note(p, c, s, e) == [pitch |-> p, channel |-> c, start_time |-> s, end_time |-> e]

\* The note lists the application installs: none, a long note with a one-tick
\* note inside it, a degenerate note beside a regular one.
NoteLists ==
    { << >>,
      << Note(60, 0, 0, 2), Note(62, 0, 1, 2) >>,
      << Note(64, 1, 1, 1), Note(60, 0, 1, 3) >> }

VARIABLES
    \* PlaybackController fields
    fluidsynth_player,          \* TRUE: the player exists and its fs is set
    notes,
    is_playing_internal,
    paused,
    current_playback_time_sec,
    playback_start_real_time,   \* in half units
    pause_start_time_sec,
    tempo_bpm,                  \* tempo_scale_factor is tempo_bpm / ReferenceBpm
    stop_flag,
    is_playing_for_scheduler,
    note_scheduler,             \* TRUE: a NoteScheduler instance exists
    \* NoteScheduler fields
    sched_notes,
    started,                    \* indices of notes that got their note-on
    active,                     \* indices of notes that are sounding
    cursor_pos,                 \* position of the last reset_playback_position
    thread_alive,
    \* Output sink: the (channel, pitch) voices that are on
    sounding,
    \* environment
    now,                        \* time.time()
    since_poll,                 \* ticks since the loop last woke
    \* observation of the last step
    last_op,                    \* the operation called, or "tick" or "poll"
    pre_mode,                   \* the mode the operation was called in
    last_arg,                   \* its argument (seek target, bpm), else 0
    calls,                      \* the scheduler and sink calls it made, and
                                \* seek's assignment of the position
    raised,                     \* TRUE: it raised an exception to its caller
    \* observation of the current uninterrupted run from position 0
    run_clean,
    on_count,
    off_count,
    last_poll,
    \* the two threads, when their steps interleave
    ctl_pc,                     \* where the control thread is in last_op
    ctl_reg,                    \* current_pos_before_tempo_change
    loop_pc,                    \* where the dispatch loop is in its iteration
    loop_pos,                   \* the position the iteration read
    old_loop                    \* the stop signal as the running loop has
                                \* met it: "none", "signalled", "missed"

vars == << fluidsynth_player, notes, is_playing_internal, paused,
           current_playback_time_sec, playback_start_real_time,
           pause_start_time_sec, tempo_bpm, stop_flag,
           is_playing_for_scheduler, note_scheduler, sched_notes, started,
           active, cursor_pos, thread_alive, sounding, now, since_poll,
           last_op, pre_mode, last_arg, calls, raised, run_clean, on_count,
           off_count, last_poll, ctl_pc, ctl_reg, loop_pc, loop_pos,
           old_loop >>

thread_vars == << ctl_pc, ctl_reg, loop_pc, loop_pos, old_loop >>

\* The program state as one record, so that a handler is a function of it.
S == [ fluidsynth_player |-> fluidsynth_player, notes |-> notes,
       is_playing_internal |-> is_playing_internal, paused |-> paused,
       current_playback_time_sec |-> current_playback_time_sec,
       playback_start_real_time |-> playback_start_real_time,
       pause_start_time_sec |-> pause_start_time_sec,
       tempo_bpm |-> tempo_bpm, stop_flag |-> stop_flag,
       is_playing_for_scheduler |-> is_playing_for_scheduler,
       note_scheduler |-> note_scheduler, sched_notes |-> sched_notes,
       started |-> started, active |-> active, cursor_pos |-> cursor_pos,
       thread_alive |-> thread_alive, sounding |-> sounding,
       calls |-> << >>, raised |-> FALSE, run_clean |-> run_clean, on_count |-> on_count,
       off_count |-> off_count, last_poll |-> last_poll ]

Max(a, b) == IF a >= b THEN a ELSE b

Zeros(n) == [i \in 1..n |-> 0]

\* ------------------------------------------------------------ arithmetic
\* x * tempo_scale_factor
TimesScaleNone(x, bpm) == x

TimesScale(x, bpm) == (x * bpm) \div ReferenceBpm

\* x / tempo_scale_factor
OverScale(x, bpm) == (x * ReferenceBpm) \div bpm

\* A clock reading or a position in half units.
Fixed(x) == 2 * x

AnchorUnscaled(pos, bpm) == Fixed(now) - Fixed(pos)

AnchorNow(pos, bpm) == Fixed(now)

\* time.time() - position / tempo_scale_factor, in half units
AnchorFor(pos, bpm) == Fixed(now) - OverScale(Fixed(pos), bpm)

ClampNone(position_sec) == position_sec

\* max(0.0, position_sec)
Clamp(position_sec) == Max(0, position_sec)

\* Two fixed-point values that differ by at most one unit.
Within(a, b) == (a - b) \in {-1, 0, 1}

\* ------------------------------------------------------------------ modes
IsPlaying(s) == s.is_playing_internal /\ ~s.paused

ModeOf(s) ==
    IF IsPlaying(s) THEN "Playing"
    ELSE IF s.paused THEN "Paused"
    ELSE "Stopped"

\* ------------------------------------------------------------- the sink
send_all_notes_off(s) ==
    IF ~s.fluidsynth_player THEN s
    ELSE [s EXCEPT !.sounding = {}, !.calls = Append(@, "all_notes_off")]

\* ------------------------------------------------- get_current_position
\* (time.time() - playback_start_real_time) * tempo_scale_factor
LivePosition(s) ==
    TimesScale(Fixed(now) - s.playback_start_real_time, s.tempo_bpm) \div 2

\* The value get_current_position() returns.
PositionValue(s) ==
    IF IsPlaying(s) THEN LivePosition(s)
    ELSE IF s.paused THEN s.pause_start_time_sec
    ELSE s.current_playback_time_sec

\* The state get_current_position() leaves: while playing it stores the value.
get_current_position(s) ==
    IF IsPlaying(s)
    THEN [s EXCEPT !.current_playback_time_sec = LivePosition(s)]
    ELSE s

\* --------------------------------------------------------- NoteScheduler
\* NoteScheduler(notes=self.notes, ...): a fresh cursor, no thread yet.
NoteScheduler(s) ==
    [s EXCEPT !.note_scheduler = TRUE, !.sched_notes = s.notes,
              !.started = {}, !.active = {}, !.cursor_pos = 0,
              !.thread_alive = FALSE, !.calls = Append(@, "NoteScheduler")]

\* update_notes(notes): replaces the list the loop iterates.
update_notes(s, ns) ==
    [s EXCEPT !.sched_notes = ns, !.calls = Append(@, "update_notes")]

\* reset_playback_position(pos): clears all started/active bookkeeping.
reset_playback_position(s, pos) ==
    [s EXCEPT !.started = {}, !.active = {}, !.cursor_pos = pos,
              !.calls = Append(@, "reset_playback_position")]

\* start_playback_thread(): starts the loop if it is not running.
start_playback_thread(s) ==
    [s EXCEPT !.thread_alive = TRUE,
              !.calls = Append(@, "start_playback_thread")]

\* stop_playback_thread(join): raises the cooperative stop signal, waits for
\* the loop to exit when join, and always issues a final all-notes-off.
stop_playback_thread(s, join) ==
    send_all_notes_off(
        [s EXCEPT !.stop_flag = TRUE,
                  !.thread_alive = IF join THEN FALSE ELSE @,
                  !.calls = Append(@, "stop_playback_thread")])

Voice(n) == << n.channel, n.pitch >>

Count(c, idx, counted) ==
    [i \in DOMAIN c |-> IF counted /\ i \in idx THEN c[i] + 1 ELSE c[i]]

DueOnClosedWindow(s, pos) ==
    { i \in (1..Len(s.sched_notes)) \ s.started :
        /\ s.sched_notes[i].start_time <= pos
        /\ pos <= s.sched_notes[i].end_time }

\* The notes whose note-on is due at pos: not yet started, window holds pos.
DueOn(s, pos) ==
    { i \in (1..Len(s.sched_notes)) \ s.started :
        /\ s.sched_notes[i].start_time <= pos
        /\ pos < s.sched_notes[i].end_time }

\* The active notes whose note-off is due at pos.
DueOff(s, pos) ==
    { i \in s.active : s.sched_notes[i].end_time <= pos }

dispatch_note_ons(s, pos) ==
    LET ons == DueOn(s, pos) IN
    [s EXCEPT !.started = @ \cup ons, !.active = @ \cup ons,
              !.sounding = @ \cup { Voice(s.sched_notes[i]) : i \in ons },
              !.on_count = Count(@, ons, s.run_clean)]

dispatch_note_offs(s, pos) ==
    LET offs == DueOff(s, pos) IN
    [s EXCEPT !.active = @ \ offs,
              !.sounding = @ \ { Voice(s.sched_notes[i]) : i \in offs },
              !.off_count = Count(@, offs, s.run_clean)]

\* One wake of the dispatch loop.
scheduler_iteration(s) ==
    IF s.stop_flag THEN [s EXCEPT !.thread_alive = FALSE]
    ELSE IF ~s.is_playing_for_scheduler THEN s
    ELSE LET pos == PositionValue(s)
             s1  == get_current_position(s)
         IN  [dispatch_note_offs(dispatch_note_ons(s1, pos), pos)
                 EXCEPT !.last_poll = pos]

\* ---------------------------------------------------- PlaybackController
ensure_scheduler(s) ==
    IF ~s.fluidsynth_player THEN [s EXCEPT !.note_scheduler = FALSE]
    ELSE IF ~s.note_scheduler THEN NoteScheduler(s)
    ELSE update_notes(s, s.notes)

clear_play_flags_keep_paused(s) ==
    [s EXCEPT !.is_playing_internal = FALSE,
              !.is_playing_for_scheduler = FALSE]

\* _is_playing_internal, _is_playing_for_scheduler[0] and paused set False.
clear_play_flags(s) ==
    [s EXCEPT !.is_playing_internal = FALSE,
              !.is_playing_for_scheduler = FALSE,
              !.paused = FALSE]

silence_only_scheduler(s) ==
    IF s.note_scheduler THEN stop_playback_thread(s, TRUE) ELSE s

\* stop(): the scheduler's stop_playback_thread, else the sink directly.
silence_on_stop(s) ==
    IF s.note_scheduler THEN stop_playback_thread(s, TRUE)
    ELSE IF s.fluidsynth_player THEN send_all_notes_off(s)
    ELSE s

reset_positions_stale(s) ==
    [s EXCEPT !.current_playback_time_sec = s.pause_start_time_sec,
              !.pause_start_time_sec = 0]

\* current_playback_time_sec and pause_start_time_sec set to 0.0.
reset_positions(s) ==
    [s EXCEPT !.current_playback_time_sec = 0,
              !.pause_start_time_sec = 0]

stop(s) ==
    LET s3 == reset_positions(silence_on_stop(clear_play_flags(s)))
    IN  IF s3.note_scheduler THEN reset_playback_position(s3, 0) ELSE s3

stop_skipped(s) == clear_play_flags(s)

\* set_notes(): stop() with a player, else only the flags are reset.
stop_before_install(s) ==
    IF s.fluidsynth_player THEN stop(s) ELSE clear_play_flags(s)

\* set_notes() after its stop(): the list, the positions, the scheduler.
install_notes(s, ns) ==
    LET s2 == reset_positions([s EXCEPT !.notes = ns])
    IN  IF ~s2.fluidsynth_player THEN s2
        ELSE IF s2.note_scheduler
             THEN reset_playback_position(update_notes(s2, s2.notes), 0)
             ELSE ensure_scheduler(s2)

set_notes(s, ns) == install_notes(stop_before_install(s), ns)

can_play_any_list(s) == s.fluidsynth_player

\* play() goes on only with a player and a non-empty note list.
can_play(s) == s.fluidsynth_player /\ s.notes # << >>

\* play(): stop_flag cleared, both playing flags set, paused still as it was.
play_flags(s) ==
    [s EXCEPT !.stop_flag = FALSE,
              !.is_playing_internal = TRUE,
              !.is_playing_for_scheduler = TRUE]

\* play(): the anchor for the resume or the fresh start, then the thread.
play_anchor(s2) ==
    LET s3 == IF s2.paused
              THEN [s2 EXCEPT
                      !.playback_start_real_time =
                          AnchorFor(s2.pause_start_time_sec, s2.tempo_bpm),
                      !.paused = FALSE]
              ELSE reset_playback_position(
                      [s2 EXCEPT !.playback_start_real_time =
                          AnchorFor(s2.current_playback_time_sec,
                                    s2.tempo_bpm)],
                      s2.current_playback_time_sec)
    IN  start_playback_thread(s3)

play(s) ==
    IF ~can_play(s) THEN s
    ELSE LET s1 == ensure_scheduler(s) IN
         IF ~s1.note_scheduler THEN s1
         ELSE IF IsPlaying(s1) THEN s1
         ELSE play_anchor(play_flags(s1))

pause_allowed_unless_paused(s) == ~s.paused

\* pause() acts only if self._is_playing_internal and not self.paused.
pause_allowed(s) == s.is_playing_internal /\ ~s.paused

set_paused_flags_without_paused(s) ==
    [s EXCEPT !.is_playing_internal = FALSE,
              !.is_playing_for_scheduler = FALSE]

\* paused set True, _is_playing_internal and the scheduler's flag False.
set_paused_flags(s) ==
    [s EXCEPT !.paused = TRUE,
              !.is_playing_internal = FALSE,
              !.is_playing_for_scheduler = FALSE]

\* pause() after its flags: pause_start_time_sec = get_current_position(),
\* then all notes off.
pause_freeze(s1) ==
    LET s2 == [get_current_position(s1) EXCEPT
                  !.pause_start_time_sec = PositionValue(s1)]
    IN  IF s2.fluidsynth_player THEN send_all_notes_off(s2) ELSE s2

pause(s) ==
    IF ~pause_allowed(s) THEN s
    ELSE pause_freeze(set_paused_flags(s))

silence_before_seek_if_playing(s) ==
    IF IsPlaying(s) THEN send_all_notes_off(s) ELSE s

\* seek() with a player: all notes off first, whatever the play state.
silence_before_seek(s) == send_all_notes_off(s)

\* seek() assigns both position fields; the assignment is logged in calls.
set_position(s, position_sec) ==
    [s EXCEPT !.current_playback_time_sec = Clamp(position_sec),
              !.pause_start_time_sec = Clamp(position_sec),
              !.calls = Append(@, "set_position")]

\* seek(): the scheduler's cursor and the anchor, both from the field
\* current_playback_time_sec as it is when they are computed.
seek_anchor(s2) ==
    LET s3 == IF s2.note_scheduler
              THEN reset_playback_position(s2, s2.current_playback_time_sec)
              ELSE s2
    IN  [s3 EXCEPT !.playback_start_real_time =
            AnchorFor(s3.current_playback_time_sec, s3.tempo_bpm)]

\* seek() restarts the thread if it was playing and has a scheduler.
seek_restarts(s) == IsPlaying(s) /\ s.note_scheduler

\* seek(): after stop_playback_thread(join=False) the stop flag is cleared,
\* the scheduler's flag set and the thread started.
seek_restart(s) ==
    start_playback_thread([s EXCEPT !.stop_flag = FALSE,
                                    !.is_playing_for_scheduler = TRUE])

seek(s, position_sec) ==
    IF ~s.fluidsynth_player
    THEN set_position(s, position_sec)
    ELSE LET s4 == seek_anchor(set_position(silence_before_seek(s),
                                            position_sec))
         IN  IF seek_restarts(s4)
             THEN seek_restart(stop_playback_thread(s4, FALSE))
             ELSE s4

rejected_tempo_reads_position(s) == get_current_position(s)

\* set_tempo() with bpm <= 0 returns before it reads or writes anything.
rejected_tempo(s) == s

position_after_tempo(s, bpm) == PositionValue([s EXCEPT !.tempo_bpm = bpm])

\* current_pos_before_tempo_change, read before the tempo is assigned.
position_before_tempo(s, bpm) == PositionValue(s)

set_tempo(s, bpm) ==
    IF bpm <= 0 THEN rejected_tempo(s)
    ELSE LET pos == position_before_tempo(s, bpm)
             s1  == [get_current_position(s) EXCEPT !.tempo_bpm = bpm]
         IN  IF s1.is_playing_internal \/ s1.paused
             THEN [s1 EXCEPT !.playback_start_real_time = AnchorFor(pos, bpm)]
             ELSE s1

toggle_playback(s) == IF IsPlaying(s) THEN pause(s) ELSE play(s)

set_instrument_unguarded(s, program_number) ==
    [s EXCEPT !.calls = Append(@, "program_change")]

\* set_instrument(): a program change to the player if there is one; the
\* player swallows its own errors.  The synthesizer's program table is the
\* sink's, not the controller's.
set_instrument(s, program_number) ==
    IF s.fluidsynth_player
    THEN [s EXCEPT !.calls = Append(@, "program_change")]
    ELSE s

\* cleanup(): stop(), then self.device_manager.close_device().  No
\* device_manager attribute is ever assigned, so the attribute lookup raises
\* AttributeError out of cleanup().
cleanup(s) == [stop(s) EXCEPT !.raised = TRUE]

\* ------------------------------------------------- uninterrupted runs
\* The run observation after an operation that took the state from s to t:
\* play() from Stopped at position 0 opens a run; pause, stop, seek and
\* set_notes end it.
Cleared(t, clean) ==
    [t EXCEPT !.run_clean = clean,
              !.on_count = Zeros(Len(t.sched_notes)),
              !.off_count = Zeros(Len(t.sched_notes)),
              !.last_poll = -1]

RunStart(s, t) ==
    IF ModeOf(s) = "Stopped" /\ ModeOf(t) = "Playing"
    THEN Cleared(t, s.current_playback_time_sec = 0)
    ELSE t

RunEnd(t) == Cleared(t, FALSE)

\* ----------------------------------------------------------- actions
Store(t) ==
    /\ fluidsynth_player' = t.fluidsynth_player
    /\ notes' = t.notes
    /\ is_playing_internal' = t.is_playing_internal
    /\ paused' = t.paused
    /\ current_playback_time_sec' = t.current_playback_time_sec
    /\ playback_start_real_time' = t.playback_start_real_time
    /\ pause_start_time_sec' = t.pause_start_time_sec
    /\ tempo_bpm' = t.tempo_bpm
    /\ stop_flag' = t.stop_flag
    /\ is_playing_for_scheduler' = t.is_playing_for_scheduler
    /\ note_scheduler' = t.note_scheduler
    /\ sched_notes' = t.sched_notes
    /\ started' = t.started
    /\ active' = t.active
    /\ cursor_pos' = t.cursor_pos
    /\ thread_alive' = t.thread_alive
    /\ sounding' = t.sounding
    /\ run_clean' = t.run_clean
    /\ on_count' = t.on_count
    /\ off_count' = t.off_count
    /\ last_poll' = t.last_poll

\* A controller operation, called by the application at the instant now.
Call(name, arg, t) ==
    /\ Store(t)
    /\ calls' = t.calls
    /\ raised' = t.raised
    /\ last_op' = name
    /\ last_arg' = arg
    /\ pre_mode' = ModeOf(S)
    /\ since_poll' = IF thread_alive /\ t.thread_alive THEN since_poll ELSE 0
    /\ UNCHANGED << now, thread_vars >>

Init ==
    /\ fluidsynth_player \in BOOLEAN
    /\ notes = << >>
    /\ is_playing_internal = FALSE
    /\ paused = FALSE
    /\ current_playback_time_sec = 0
    /\ playback_start_real_time = 0
    /\ pause_start_time_sec = 0
    /\ tempo_bpm = ReferenceBpm
    /\ stop_flag = FALSE
    /\ is_playing_for_scheduler = FALSE
    /\ note_scheduler = FALSE
    /\ sched_notes = << >>
    /\ started = {}
    /\ active = {}
    /\ cursor_pos = 0
    /\ thread_alive = FALSE
    /\ sounding = {}
    /\ now = 0
    /\ since_poll = 0
    /\ last_op = "init"
    /\ last_arg = 0
    /\ pre_mode = "Stopped"
    /\ calls = IF fluidsynth_player THEN << "program_change" >> ELSE << >>
    /\ raised = FALSE
    /\ run_clean = FALSE
    /\ on_count = << >>
    /\ off_count = << >>
    /\ last_poll = -1
    /\ ctl_pc = "idle"
    /\ ctl_reg = 0
    /\ loop_pc = "sleep"
    /\ loop_pos = 0
    /\ old_loop = "none"

SetNotes == \E ns \in NoteLists : Call("set_notes", 0, RunEnd(set_notes(S, ns)))

Play == Call("play", 0, RunStart(S, play(S)))

Pause == Call("pause", 0, RunEnd(pause(S)))

Stop == Call("stop", 0, RunEnd(stop(S)))

Seek == \E t \in SeekTargets : Call("seek", t, RunEnd(seek(S, t)))

SetTempo == \E bpm \in Tempos \cup BadTempos : Call("set_tempo", bpm, set_tempo(S, bpm))

GetCurrentPosition == Call("get_current_position", 0, get_current_position(S))

TogglePlayback ==
    Call("toggle_playback", 0,
         IF IsPlaying(S) THEN RunEnd(toggle_playback(S))
         ELSE RunStart(S, toggle_playback(S)))

SetInstrument ==
    \E program \in Programs :
        Call("set_instrument", program, set_instrument(S, program))

Cleanup == Call("cleanup", 0, RunEnd(cleanup(S)))

\* A step of the environment: no operation was called.
Observe(name) ==
    /\ last_op' = name
    /\ last_arg' = 0
    /\ pre_mode' = ModeOf(S)
    /\ calls' = << >>
    /\ raised' = FALSE
    /\ UNCHANGED thread_vars

\* The dispatch loop wakes.
Poll ==
    /\ thread_alive
    /\ Store(scheduler_iteration(S))
    /\ since_poll' = 0
    /\ Observe("poll")
    /\ UNCHANGED now

\* The wall clock advances; a running loop is never more than MaxPollGap late.
Tick ==
    /\ now < MaxTime
    /\ thread_alive => since_poll < MaxPollGap
    /\ now' = now + 1
    /\ since_poll' = IF thread_alive THEN since_poll + 1 ELSE 0
    /\ Observe("tick")
    /\ UNCHANGED << fluidsynth_player, notes, is_playing_internal, paused,
                    current_playback_time_sec, playback_start_real_time,
                    pause_start_time_sec, tempo_bpm, stop_flag,
                    is_playing_for_scheduler, note_scheduler, sched_notes,
                    started, active, cursor_pos, thread_alive, sounding,
                    run_clean, on_count, off_count, last_poll >>

Next ==
    \/ SetNotes
    \/ Play
    \/ Pause
    \/ Stop
    \/ Seek
    \/ SetTempo
    \/ GetCurrentPosition
    \/ TogglePlayback
    \/ SetInstrument
    \/ Cleanup
    \/ Poll
    \/ Tick

Spec == Init /\ [][Next]_vars

\* ------------------------------------------------- interleaved threads
\* The controller takes no lock: its operations are sequences of field
\* writes and scheduler calls, and the dispatch loop, on its own thread,
\* reads the flags and the position and then dispatches.  Here the steps
\* of the two threads interleave.  An operation and a loop iteration take
\* less than a clock unit, so the clock moves only when both are at rest.

\* last_poll is the last position the loop read since an operation other
\* than set_tempo() took a step.
Forget(name, t) ==
    IF name = "set_tempo" THEN t ELSE [t EXCEPT !.last_poll = -1]

\* A step of the control thread in the operation name.
CtlStep(name, t, pc, reg, ol) ==
    /\ Store(Forget(name, t))
    /\ ctl_pc' = pc
    /\ ctl_reg' = reg
    /\ old_loop' = ol
    /\ calls' = << >>
    /\ raised' = FALSE
    /\ UNCHANGED << now, since_poll, loop_pc, loop_pos >>

\* The application calls an operation; its first step.
Begin(name, arg, t, pc, reg, ol) ==
    /\ ctl_pc = "idle"
    /\ last_op' = name
    /\ last_arg' = arg
    /\ UNCHANGED pre_mode
    /\ CtlStep(name, t, pc, reg, ol)

\* A later step of the operation in progress.
Continue(label, t, pc, reg, ol) ==
    /\ ctl_pc = label
    /\ UNCHANGED << last_op, last_arg, pre_mode >>
    /\ CtlStep(last_op, t, pc, reg, ol)

\* What the loop that start_playback_thread() leaves running has met.
AfterStart(t) == IF thread_alive THEN old_loop ELSE "none"

AfterStop(name) == IF name = "set_notes" THEN "install" ELSE "idle"

\* stop(): the flags, then the stop signal of stop_playback_thread(), or
\* without a scheduler the rest of stop().
TStopBegin(name) ==
    LET s1 == clear_play_flags(S) IN
    IF s1.note_scheduler
    THEN Begin(name, 0, [s1 EXCEPT !.stop_flag = TRUE], "stop_join", 0,
               old_loop)
    ELSE Begin(name, 0, reset_positions(silence_on_stop(s1)),
               AfterStop(name), 0, old_loop)

TStop == TStopBegin("stop")

\* stop_playback_thread() has joined the loop: the final all-notes-off,
\* then stop() resets the positions and the cursor.
TStopJoin ==
    /\ ~thread_alive
    /\ Continue("stop_join",
                reset_playback_position(
                    reset_positions(send_all_notes_off(S)), 0),
                AfterStop(last_op), 0, "none")

TSetNotes ==
    IF fluidsynth_player
    THEN TStopBegin("set_notes")
    ELSE \E ns \in NoteLists :
            Begin("set_notes", 0, set_notes(S, ns), "idle", 0, old_loop)

TInstall ==
    \E ns \in NoteLists :
        Continue("install", install_notes(S, ns), "idle", 0, old_loop)

TPlay ==
    LET s1 == ensure_scheduler(S) IN
    IF ~can_play(S) THEN Begin("play", 0, S, "idle", 0, old_loop)
    ELSE IF ~s1.note_scheduler \/ IsPlaying(s1)
         THEN Begin("play", 0, s1, "idle", 0, old_loop)
         ELSE Begin("play", 0, play_flags(s1), "play_anchor", 0, old_loop)

TPlayAnchor ==
    Continue("play_anchor", play_anchor(S), "idle", 0, AfterStart(S))

TPause ==
    IF pause_allowed(S)
    THEN Begin("pause", 0, [S EXCEPT !.paused = TRUE], "pause_flags", 0,
               old_loop)
    ELSE Begin("pause", 0, S, "idle", 0, old_loop)

TPauseFlags ==
    Continue("pause_flags", pause_freeze(set_paused_flags(S)), "idle", 0,
             old_loop)

\* seek(): all notes off, then current_playback_time_sec.
TSeek ==
    \E position_sec \in SeekTargets :
        IF ~fluidsynth_player
        THEN Begin("seek", position_sec, set_position(S, position_sec),
                   "idle", 0, old_loop)
        ELSE Begin("seek", position_sec,
                   [silence_before_seek(S) EXCEPT
                       !.current_playback_time_sec = Clamp(position_sec)],
                   "seek_copy", 0, old_loop)

\* seek(): pause_start_time_sec, the cursor and the anchor from the field,
\* then stop_playback_thread(join=False) if it was playing.
TSeekCopy ==
    LET s4 == seek_anchor([S EXCEPT !.pause_start_time_sec =
                                        S.current_playback_time_sec])
    IN  IF seek_restarts(s4)
        THEN Continue("seek_copy", stop_playback_thread(s4, FALSE),
                      "seek_restart", 0,
                      IF thread_alive THEN "signalled" ELSE old_loop)
        ELSE Continue("seek_copy", s4, "idle", 0, old_loop)

TSeekRestart ==
    Continue("seek_restart", seek_restart(S), "idle", 0, AfterStart(S))

\* set_tempo(): the position read and the tempo assigned.
TSetTempo ==
    \E bpm \in Tempos :
        LET s1 == [get_current_position(S) EXCEPT !.tempo_bpm = bpm] IN
        IF s1.is_playing_internal \/ s1.paused
        THEN Begin("set_tempo", bpm, s1, "tempo_anchor",
                   position_before_tempo(S, bpm), old_loop)
        ELSE Begin("set_tempo", bpm, s1, "idle", 0, old_loop)

\* set_tempo(): the anchor for the position read before.
TTempoAnchor ==
    Continue("tempo_anchor",
             [S EXCEPT !.playback_start_real_time =
                           AnchorFor(ctl_reg, tempo_bpm)],
             "idle", 0, old_loop)

\* The loop wakes: it exits on the stop signal, idles when the controller
\* is not playing, else reads the position through the controller.
LoopWake ==
    /\ thread_alive
    /\ loop_pc = "sleep"
    /\ IF stop_flag
       THEN /\ Store([S EXCEPT !.thread_alive = FALSE])
            /\ old_loop' = "none"
            /\ UNCHANGED << loop_pc, loop_pos >>
       ELSE /\ old_loop' = IF old_loop = "signalled" THEN "missed"
                                                     ELSE old_loop
            /\ IF is_playing_for_scheduler
               THEN /\ Store([get_current_position(S) EXCEPT
                                 !.last_poll = PositionValue(S)])
                    /\ loop_pc' = "dispatch"
                    /\ loop_pos' = PositionValue(S)
               ELSE /\ Store(S)
                    /\ UNCHANGED << loop_pc, loop_pos >>
    /\ UNCHANGED << now, since_poll, ctl_pc, ctl_reg, last_op, last_arg,
                    pre_mode, calls, raised >>

\* The loop dispatches for the position it read.
LoopDispatch ==
    /\ loop_pc = "dispatch"
    /\ Store(dispatch_note_offs(dispatch_note_ons(S, loop_pos), loop_pos))
    /\ loop_pc' = "sleep"
    /\ loop_pos' = 0
    /\ UNCHANGED << now, since_poll, ctl_pc, ctl_reg, old_loop, last_op,
                    last_arg, pre_mode, calls, raised >>

TTick ==
    /\ ctl_pc = "idle"
    /\ loop_pc = "sleep"
    /\ now < MaxThreadTime
    /\ now' = now + 1
    /\ UNCHANGED << fluidsynth_player, notes, is_playing_internal, paused,
                    current_playback_time_sec, playback_start_real_time,
                    pause_start_time_sec, tempo_bpm, stop_flag,
                    is_playing_for_scheduler, note_scheduler, sched_notes,
                    started, active, cursor_pos, thread_alive, sounding,
                    since_poll, last_op, pre_mode, last_arg, calls, raised,
                    run_clean, on_count, off_count, last_poll, thread_vars >>

NextThreads ==
    \/ TSetNotes
    \/ TInstall
    \/ TPlay
    \/ TPlayAnchor
    \/ TPause
    \/ TPauseFlags
    \/ TStop
    \/ TStopJoin
    \/ TSeek
    \/ TSeekCopy
    \/ TSeekRestart
    \/ TSetTempo
    \/ TTempoAnchor
    \/ LoopWake
    \/ LoopDispatch
    \/ TTick

SpecThreads == Init /\ [][NextThreads]_vars

\* ------------------------------------------------------------ properties
Mode == ModeOf(S)

Position == PositionValue(S)

\* What the controller, the scheduler and the sink hold.
TransportState ==
    << is_playing_internal, paused, is_playing_for_scheduler,
       current_playback_time_sec, playback_start_real_time,
       pause_start_time_sec, tempo_bpm, notes, stop_flag >>

SchedulerState ==
    << note_scheduler, sched_notes, started, active, cursor_pos, thread_alive >>

Called(name) == \E i \in 1..Len(calls) : calls[i] = name

\* Every call named a comes before every call named b.
CalledBefore(a, b) ==
    \A i, j \in 1..Len(calls) : calls[i] = a /\ calls[j] = b => i < j

\* The step is pause() taking effect: called while Playing.
PauseStep == last_op' \in {"pause", "toggle_playback"} /\ pre_mode' = "Playing"

\* C1: play() called right after a pause() that was called while Playing
\* resumes at the position that was live at the pause.  In the state
\* between the two calls the anchor, the tempo and the clock are those of
\* the pause, so LivePosition(S) there is the position that was live.
C1_PauseThenPlayResumes ==
    [][ ( /\ last_op = "pause"
          /\ pre_mode = "Playing"
          /\ last_op' = "play" )
        => Within(Position', LivePosition(S)) ]_vars

\* C2: pause() called while Playing leaves get_current_position() at the
\* live position of the call, and while Paused every step other than
\* seek, stop, set_notes and play leaves that value alone.
C2_PauseFreezesLivePosition ==
    [][ /\ PauseStep => Position' = Position
        /\ ( /\ Mode = "Paused"
             /\ last_op' \in {"pause", "set_tempo", "get_current_position",
                              "tick", "poll"} )
           => Position' = Position ]_vars

\* C3: right after seek(t), in every mode and with or without a sink,
\* get_current_position() is max(0, t) to within one unit, and exactly
\* max(0, t) when not Playing.
C3_SeekSetsPosition ==
    last_op = "seek" =>
        /\ Within(Position, Max(0, last_arg))
        /\ Mode = pre_mode
        /\ Mode # "Playing" => Position = Max(0, last_arg)

C3_Witness ==
    /\ last_op = "seek"
    /\ last_arg = -1
    /\ pre_mode = "Playing"
    /\ tempo_bpm = 240
    /\ now > 0
    /\ Position = 0

\* C4: after stop(), from any mode, the mode is Stopped, all three play
\* flags are false and get_current_position() is 0.
C4_StopStops ==
    last_op = "stop" =>
        /\ Mode = "Stopped"
        /\ ~is_playing_internal
        /\ ~paused
        /\ ~is_playing_for_scheduler
        /\ Position = 0

C4_Witness ==
    /\ last_op = "stop"
    /\ pre_mode = "Paused"
    /\ Mode = "Stopped"
    /\ now > 0

\* C5, as claimed: every stop() dispatches an all-notes-off to the sink.
C5_StopAlwaysSilences == last_op = "stop" => Called("all_notes_off")

\* C5, amended: with the Output Sink available every stop() dispatches an
\* all-notes-off, in every mode, with or without a scheduler, its thread
\* running or not, and with nothing sounding.
C5_StopSilencesWithSink ==
    (last_op = "stop" /\ fluidsynth_player) =>
        /\ Called("all_notes_off")
        /\ sounding = {}

C5_Witness ==
    /\ last_op = "stop"
    /\ fluidsynth_player
    /\ ~note_scheduler
    /\ Called("all_notes_off")

\* C6: stop() called right after stop() changes nothing the controller,
\* the scheduler or the sink holds.
C6_StopIdempotent ==
    [][ (last_op = "stop" /\ last_op' = "stop")
        => /\ TransportState' = TransportState
           /\ SchedulerState' = SchedulerState
           /\ sounding' = sounding ]_vars

C6_Witness ==
    /\ last_op = "stop"
    /\ pre_mode = "Stopped"
    /\ note_scheduler
    /\ notes # << >>
    /\ playback_start_real_time # 0

\* C7: play() called while Playing changes no transport or scheduler state
\* and makes no scheduler or sink call.
C7_PlayWhilePlayingNoOp ==
    [][ (last_op' = "play" /\ pre_mode' = "Playing")
        => /\ TransportState' = TransportState
           /\ SchedulerState' = SchedulerState
           /\ calls' = << >> ]_vars

\* C8: play() with an empty note list or without a sink changes no
\* transport or scheduler state, starts no thread and makes no call.
C8_PlayWithoutNotesOrSinkNoOp ==
    [][ ( /\ last_op' \in {"play", "toggle_playback"}
          /\ Mode # "Playing"
          /\ (~fluidsynth_player \/ notes = << >>) )
        => /\ TransportState' = TransportState
           /\ SchedulerState' = SchedulerState
           /\ sounding' = sounding
           /\ calls' = << >> ]_vars

C8_Witness ==
    /\ last_op = "play"
    /\ fluidsynth_player
    /\ notes = << >>
    /\ note_scheduler
    /\ current_playback_time_sec = 2
    /\ Mode = "Stopped"

\* C9: after set_notes(), from any mode: the mode is Stopped and the
\* position 0; with a sink the all-notes-off came before the new list was
\* handed to the scheduler, nothing sounds, and the scheduler holds the new
\* list with a cleared cursor at 0; without a sink nothing was called.
C9_SetNotesStopsAndResets ==
    last_op = "set_notes" =>
        /\ Mode = "Stopped"
        /\ ~is_playing_for_scheduler
        /\ Position = 0
        /\ fluidsynth_player =>
              /\ Called("all_notes_off")
              /\ CalledBefore("all_notes_off", "update_notes")
              /\ CalledBefore("all_notes_off", "NoteScheduler")
              /\ sounding = {}
              /\ note_scheduler
              /\ sched_notes = notes
              /\ cursor_pos = 0
              /\ started = {}
              /\ active = {}
        /\ ~fluidsynth_player => calls = << >> /\ ~note_scheduler

C9_Witness ==
    /\ last_op = "set_notes"
    /\ pre_mode = "Playing"
    /\ fluidsynth_player
    /\ notes # << >>
    /\ Called("update_notes")

MaxEnd(ns) ==
    IF ns = << >> THEN 0
    ELSE CHOOSE e \in { ns[i].end_time : i \in 1..Len(ns) } :
            \A j \in 1..Len(ns) : ns[j].end_time <= e

\* C10: in an uninterrupted run from position 0 no note has more note-offs
\* than note-ons nor more than one note-on, and once the loop has polled at
\* or beyond the latest end_time every note with end_time > start_time has
\* had exactly one note-on and one note-off.
C10_EachNoteOnceOnOff ==
    run_clean =>
        \A i \in 1..Len(sched_notes) :
            /\ off_count[i] <= on_count[i]
            /\ on_count[i] <= 1
            /\ ( /\ last_poll >= MaxEnd(sched_notes)
                 /\ sched_notes[i].end_time > sched_notes[i].start_time )
               => on_count[i] = 1 /\ off_count[i] = 1

\* C11: the scheduler's cursor is the position of its last (re)start, by
\* play() from Stopped, by seek() in any mode, by stop() or set_notes().  No
\* wake of the dispatch loop gives a note-on to a note whose end_time is at
\* or before that position.
C11_NoNoteOnBehindCursor ==
    [][ last_op' = "poll"
        => \A i \in started' \ started :
                sched_notes[i].end_time > cursor_pos ]_vars

C11_Witness ==
    /\ last_op = "poll"
    /\ Mode = "Playing"
    /\ cursor_pos = MaxSeek
    /\ last_poll >= cursor_pos
    /\ \E i \in 1..Len(sched_notes) :
          /\ sched_notes[i].start_time < sched_notes[i].end_time
          /\ sched_notes[i].end_time <= cursor_pos
          /\ i \notin started

\* C12: a note with start_time = end_time is never started and never
\* active, and no note-on or note-off is ever counted for it, whatever the
\* position the loop started from.
C12_DegenerateNoteSilent ==
    \A i \in 1..Len(sched_notes) :
        sched_notes[i].start_time = sched_notes[i].end_time
        => /\ i \notin started
           /\ i \notin active
           /\ on_count[i] = 0
           /\ off_count[i] = 0

C12_Witness ==
    /\ last_op = "poll"
    /\ Mode = "Playing"
    /\ \E i, j \in 1..Len(sched_notes) :
          /\ sched_notes[i].start_time = sched_notes[i].end_time
          /\ last_poll = sched_notes[i].start_time
          /\ i \notin started
          /\ j \in started
          /\ sched_notes[j].start_time = last_poll

\* C13: set_tempo(bpm) with bpm > 0 installs the tempo and leaves the mode
\* and the value of get_current_position() at the instant of the call as
\* they were, in Playing, Paused and Stopped.
C13_SetTempoKeepsPosition ==
    [][ (last_op' = "set_tempo" /\ last_arg' > 0)
        => /\ Position' = Position
           /\ Mode' = Mode
           /\ tempo_bpm' = last_arg' ]_vars

C13_Witness ==
    /\ last_op = "set_tempo"
    /\ last_arg = 240
    /\ pre_mode = "Playing"
    /\ now = 1
    /\ Position = 1

\* C14: set_tempo(bpm) with bpm <= 0 changes nothing the controller, the
\* scheduler or the sink holds and makes no call.
C14_BadTempoNoOp ==
    [][ (last_op' = "set_tempo" /\ last_arg' <= 0)
        => /\ TransportState' = TransportState
           /\ SchedulerState' = SchedulerState
           /\ sounding' = sounding
           /\ Position' = Position
           /\ Mode' = Mode
           /\ calls' = << >> ]_vars

C14_Witness ==
    /\ last_op = "set_tempo"
    /\ last_arg < 0
    /\ pre_mode = "Playing"
    /\ tempo_bpm = 240
    /\ Position > current_playback_time_sec

\* C15: while Playing, a clock unit in which no operation is called moves
\* the position by tempo_bpm / 120 units: by one at 120 BPM, by two at 240.
C15_PositionAdvancesWithTempo ==
    [][ (last_op' = "tick" /\ Mode = "Playing")
        => (Position' - Position) * ReferenceBpm = tempo_bpm ]_vars

C15_Witness ==
    /\ last_op = "tick"
    /\ Mode = "Playing"
    /\ tempo_bpm = 240
    /\ Position = 4
    /\ now = MaxTime

\* C16: with the Output Sink available every seek(), in every mode and with
\* or without a scheduler, dispatches an all-notes-off within the call, as
\* its first step: before the position fields are assigned and before the
\* scheduler's cursor is repositioned; nothing sounds after it.
C16_SeekSilencesFirst ==
    (last_op = "seek" /\ fluidsynth_player) =>
        /\ Len(calls) >= 2
        /\ calls[1] = "all_notes_off"
        /\ calls[2] = "set_position"
        /\ sounding = {}

C16_Witness ==
    /\ last_op = "seek"
    /\ fluidsynth_player
    /\ pre_mode = "Stopped"
    /\ ~note_scheduler
    /\ calls = << "all_notes_off", "set_position" >>
    /\ Position = MaxSeek

\* C17: pause() called in Stopped or Paused changes nothing the controller,
\* the scheduler or the sink holds and makes no call.
C17_PauseOnlyWhilePlaying ==
    [][ (last_op' = "pause" /\ Mode # "Playing")
        => /\ TransportState' = TransportState
           /\ SchedulerState' = SchedulerState
           /\ sounding' = sounding
           /\ Position' = Position
           /\ Mode' = Mode
           /\ calls' = << >> ]_vars

C17_Witness ==
    /\ last_op = "pause"
    /\ pre_mode = "Stopped"
    /\ fluidsynth_player
    /\ notes # << >>
    /\ Position = MaxSeek
    /\ Mode = "Stopped"

\* The calls that reach the Output Sink or the Scheduler.
DispatchedCalls ==
    { calls[i] : i \in 1..Len(calls) } \ {"set_position"}

\* C18: without an Output Sink no operation dispatches anything or creates
\* a scheduler or a thread, the mode is Stopped throughout, seek(t) leaves
\* the position max(0, t) and stop() leaves it 0.
C18_NoSinkNoDispatch ==
    ~fluidsynth_player =>
        /\ DispatchedCalls = {}
        /\ ~note_scheduler
        /\ ~thread_alive
        /\ sounding = {}
        /\ ~(is_playing_internal /\ paused)
        /\ Mode = "Stopped"
        /\ last_op = "seek" => Position = Max(0, last_arg)
        /\ last_op = "stop" => Position = 0

C18_Witness ==
    /\ ~fluidsynth_player
    /\ last_op = "stop"
    /\ notes # << >>
    /\ tempo_bpm = 240
    /\ now > 0
    /\ Position = 0

\* C19: no operation of the controller raises an exception to its caller.
C19_NoExceptionEscapes == ~raised

\* C20: the mode changes only Stopped -> Playing and Paused -> Playing by
\* play() or toggle_playback(), Playing -> Paused by pause() or
\* toggle_playback(), and to Stopped by stop() or set_notes() (cleanup()
\* being a call of stop()); no other step changes the mode.
C20_ModeEdges ==
    [][ Mode' # Mode
        => \/ /\ Mode' = "Playing"
              /\ last_op' \in {"play", "toggle_playback"}
           \/ /\ Mode' = "Paused"
              /\ Mode = "Playing"
              /\ last_op' \in {"pause", "toggle_playback"}
           \/ /\ Mode' = "Stopped"
              /\ last_op' \in {"stop", "set_notes", "cleanup"} ]_vars

C20_Witness ==
    /\ last_op = "toggle_playback"
    /\ pre_mode = "Paused"
    /\ Mode = "Playing"
    /\ tempo_bpm = 240
    /\ now > 0

\* The control thread is between two operations.
Returned == ctl_pc = "idle"

\* C21: with the threads interleaved, once seek() has returned and until
\* the next operation, every note that has had a note-on since the seek's
\* cursor reset has a window that holds a position at or after the seek
\* target: it ends after the cursor and starts at or before the live
\* position; once stop() has returned nothing is started or sounding.
C21_NoStaleNoteOnAfterSilence ==
    /\ (Returned /\ last_op = "seek" /\ note_scheduler)
          => \A i \in started :
                /\ sched_notes[i].start_time <= Position
                /\ cursor_pos < sched_notes[i].end_time
    /\ (Returned /\ last_op = "stop")
          => started = {} /\ sounding = {}

\* C22: with the threads interleaved, while the controller is between
\* operations and Paused or Stopped, no note is sounding.
C22_SilentWhileNotPlaying ==
    (Returned /\ Mode # "Playing") => sounding = {}

\* The loop may be dispatching: its thread runs and the flag it shares with
\* the controller is set.
LoopActive == thread_alive /\ is_playing_for_scheduler

\* C23: an operation that calls update_notes finds the loop suspended or
\* not running at the call.  play() makes the call before it writes
\* anything, so the loop is as in the state play() was called in;
\* set_notes() makes it after its stop(), so the loop is as set_notes()
\* leaves it.
C23_UpdateNotesOnlyWhenSuspended ==
    [][ Called("update_notes")'
        => IF last_op' = "set_notes" THEN ~LoopActive' ELSE ~LoopActive ]_vars

\* C24: with the threads interleaved, a loop that was running when seek()
\* raised the stop signal never finds the signal cleared at its next check:
\* it does not go on dispatching in place of a newly started loop.
C24_OldLoopSeesStopSignal == old_loop # "missed"

\* The loop reads the position in this step.
LoopReads == loop_pc = "sleep" /\ loop_pc' = "dispatch"

\* C25: with the threads interleaved, a position the loop reads while
\* set_tempo() is between assigning the tempo and assigning the anchor is
\* the position set_tempo() read at that same instant: it is never computed
\* from the new tempo factor and the old anchor.
C25_PollSeesConsistentSnapshot ==
    [][ (LoopReads /\ ctl_pc = "tempo_anchor") => loop_pos' = ctl_reg ]_vars

\* C26: with the threads interleaved, when seek(t) called while Playing
\* returns, pause_start_time_sec, the cursor handed to
\* reset_playback_position and the anchor are those of max(0, t).
C26_SeekNotUndoneByPoll ==
    [][ ( /\ last_op = "seek"
          /\ ~Returned
          /\ Returned'
          /\ Mode' = "Playing" )
        => /\ pause_start_time_sec' = Max(0, last_arg)
           /\ cursor_pos' = Max(0, last_arg)
           /\ playback_start_real_time' =
                  AnchorFor(Max(0, last_arg), tempo_bpm) ]_vars

\* The step belongs to seek(), stop(), set_notes() or cleanup(): it is
\* neither a tick of the clock nor a step of the loop.
RepositionStep ==
    /\ last_op' \in {"seek", "stop", "set_notes", "cleanup"}
    /\ now' = now
    /\ loop_pc' = loop_pc
    /\ thread_alive' = thread_alive \/ ~Returned \/ ~Returned'

\* C27: the value get_current_position() returns to the application between
\* two operations does not decrease while Playing and does not change while
\* Paused or Stopped, over every step that keeps the mode and is not a step
\* of seek(), stop() or set_notes(); and the value it returns to the loop is
\* not below the value it returned to the loop before, when only ticks and
\* set_tempo() calls came in between.
C27_PositionMonotone ==
    [][ /\ (Returned /\ Returned' /\ Mode' = Mode /\ ~RepositionStep)
           => IF Mode = "Playing" THEN Position' >= Position
                                  ELSE Position' = Position
        /\ (LoopReads /\ last_poll >= 0) => loop_pos' >= last_poll ]_vars

\* C28: in every state either thread can observe, also between two steps
\* of an operation, _is_playing_internal and paused are not both true; and
\* between two operations the flag shared with the scheduler equals
\* _is_playing_internal.
C28_ExactlyOneMode ==
    /\ ~(is_playing_internal /\ paused)
    /\ Returned => is_playing_for_scheduler = is_playing_internal

====
